---- MODULE Spec2Model ----
(***************************************************************************)
(* Model of PrototypeEffort/flask_server/llm_server.py: the inventory      *)
(* index built at import time by load_inventory and the request handlers   *)
(* of the Flask application (ping, process_command, serve_glb,             *)
(* serve_inventory).                                                       *)
(*                                                                         *)
(* Text is modelled as a sequence of atoms.  An atom is one character      *)
(* (",", "\"", " ") or a run of letters that the code never looks inside   *)
(* ("Chair", "spawn", "_furniture").  Every string operation of the code   *)
(* (strip, split, lower, replace, in) is computed on these sequences.      *)
(***************************************************************************)
EXTENDS Integers, Sequences, FiniteSets, TLC

(***************************************************************************)
(* Bounds of the model.                                                    *)
(***************************************************************************)
MaxLines == 3
MaxBlocks == 2
MaxInFlight == 2
MaxTextLen == 5

(***************************************************************************)
(* Python str operations used by the code.                                 *)
(***************************************************************************)
Whitespace == {" ", "\t"}

RECURSIVE LStripSet(_, _)
LStripSet(s, chars) ==
    IF s # <<>> /\ Head(s) \in chars THEN LStripSet(Tail(s), chars) ELSE s

RECURSIVE RStripSet(_, _)
RStripSet(s, chars) ==
    IF s # <<>> /\ s[Len(s)] \in chars
    THEN RStripSet(SubSeq(s, 1, Len(s) - 1), chars)
    ELSE s

\* str.strip(chars): every leading and every trailing character in chars goes
StripSet(s, chars) == RStripSet(LStripSet(s, chars), chars)

\* str.strip()
Strip(s) == StripSet(s, Whitespace)

\* index of the first occurrence of atom c in s, 0 when there is none
FindFirst(s, c) ==
    IF \E i \in 1..Len(s) : s[i] = c
    THEN CHOOSE i \in 1..Len(s) : s[i] = c /\ \A j \in 1..(i - 1) : s[j] # c
    ELSE 0

\* str.split(sep, 1)
SplitOnce(s, sep) ==
    LET i == FindFirst(s, sep) IN
    IF i = 0 THEN <<s>>
    ELSE <<SubSeq(s, 1, i - 1), SubSeq(s, i + 1, Len(s))>>

\* str.split(sep)[0]
SplitHead(s, sep) ==
    LET i == FindFirst(s, sep) IN
    IF i = 0 THEN s ELSE SubSeq(s, 1, i - 1)

LowerAtom(c) ==
    CASE c = "A" -> "a"
      [] c = "B" -> "b"
      [] c = "Chair" -> "chair"
      [] c = "OfficeChair" -> "officechair"
      [] OTHER -> c

\* str.lower()
Lower(s) == [i \in 1..Len(s) |-> LowerAtom(s[i])]

\* does old occur in s at position i
OccursAt(s, old, i) ==
    /\ i + Len(old) - 1 <= Len(s)
    /\ \A j \in 1..Len(old) : s[i + j - 1] = old[j]

RECURSIVE ReplaceFrom(_, _, _, _)
ReplaceFrom(s, old, new, i) ==
    IF i > Len(s) THEN <<>>
    ELSE IF OccursAt(s, old, i)
         THEN new \o ReplaceFrom(s, old, new, i + Len(old))
         ELSE <<s[i]>> \o ReplaceFrom(s, old, new, i + 1)

\* str.replace(old, new) for a non-empty old: every occurrence, left to right
Replace(s, old, new) == ReplaceFrom(s, old, new, 1)

\* old in s (substring test)
Contains(s, old) == \E i \in 1..(Len(s) + 1) : OccursAt(s, old, i)

\* all sequences over S of length at most n
BoundedSeq(S, n) == UNION {[1..k -> S] : k \in 0..n}

(***************************************************************************)
(* State.                                                                  *)
(*   csv        the lines of INVENTORY_CSV (without their line ends)       *)
(*   pos        how many lines the for loop of load_inventory has consumed *)
(*   pc         "open": load_inventory is about to open the file;          *)
(*              "read": it is iterating over the file;                     *)
(*              "serve": the module is imported and the app serves;        *)
(*              "crashed": an exception left load_inventory at import time *)
(*   INVENTORY  the global dict, as the sequence of its (key, list)        *)
(*              entries in insertion order                                 *)
(*   reported   the except branch of load_inventory has printed the error  *)
(*   request    the request handled last (endpoint and parsed input)       *)
(*   llmReply   what client.messages.create did for that request           *)
(*   llmCalls   how many times that request called client.messages.create  *)
(*   response   the response of that request                               *)
(*   inflight   the requests handled at the same time by the threads of    *)
(*              the server, one record per thread (SpecConc)               *)
(***************************************************************************)
VARIABLES csv, pos, pc, INVENTORY, reported, request, llmReply, llmCalls, response,
          inflight

vars == <<csv, pos, pc, INVENTORY, reported, request, llmReply, llmCalls, response,
          inflight>>
loadVars == <<csv, pos, pc, INVENTORY, reported>>
reqVars == <<request, llmReply, llmCalls, response, inflight>>

(***************************************************************************)
(* load_inventory                                                          *)
(***************************************************************************)
\* the lines a CSV file is made of in the model
LineSet ==
    { <<>>,
      <<" ">>,
      <<"a">>,
      <<"a", ",">>,
      <<",", "B">>,
      <<"a", ",", "B">>,
      <<"b", ",", "B">>,
      <<"a", ",", "Chair">>,
      <<"a", ",", "\"", "B", "\"">>,
      <<"a", ",", "\"", "B">>,
      <<"a", ",", "\"", "\"", "B", "\"", "\"">>,
      <<"a", ",", "\"", " ", "B", ",", "a", "\"">>,
      <<" ", "a", " ", ",", " ", "\"", "B", ",", "Chair", "\"", " ">>,
      <<"abc123", ",", "\"", "Chair", ",", "OfficeChair", "\"">> }

\* the exceptions open() and the iteration over the file raise
OpenErrors == {"FileNotFoundError", "PermissionError"}
ReadErrors == {"UnicodeDecodeError", "OSError"}
\* the exceptions raised inside the try block of process_command
LLMErrors == {"APIConnectionError", "APITimeoutError", "APIStatusError"}
ReplyErrors == {"StopIteration"}
\* the exceptions raised before the try block of process_command
HandlerErrors == {"AttributeError", "TypeError"}

\* the classes an "except Exception" clause catches, among those of the model
ExceptionSubclasses ==
    OpenErrors \cup ReadErrors \cup LLMErrors \cup ReplyErrors \cup HandlerErrors

\* except Exception as e: (load_inventory)
LoadCatches(exc) == exc \in ExceptionSubclasses

\* parts = line.strip().split(',', 1)
LineParts(line) == SplitOnce(Strip(line), ",")

\* if len(parts) == 2:
IsRow(parts) == Len(parts) = 2

\* model_id = parts[0].strip()
ModelId(parts) == Strip(parts[1])

\* categories = parts[1].strip().strip('"')
Categories(parts) == StripSet(Strip(parts[2]), {"\""})

\* mutant of MainCategory: the key is not case-folded
MainCategoryNoLower(categories) == SplitHead(categories, ",")

\* main_category = categories.split(',')[0].lower()
MainCategory(categories) == Lower(SplitHead(categories, ","))

HasKey(inv, key) == \E i \in 1..Len(inv) : inv[i].key = key

KeyIndex(inv, key) == CHOOSE i \in 1..Len(inv) : inv[i].key = key

\* INVENTORY[key] (only used where the key is present)
Models(inv, key) == inv[KeyIndex(inv, key)].models

\* mutant of InventoryAppend: a record whose id is already in the list is skipped
InventoryAppendDedup(inv, key, rec) ==
    IF HasKey(inv, key)
    THEN IF \E i \in 1..Len(Models(inv, key)) : Models(inv, key)[i].id = rec.id
         THEN inv
         ELSE [inv EXCEPT ![KeyIndex(inv, key)].models = Append(@, rec)]
    ELSE Append(inv, [key |-> key, models |-> <<rec>>])

\* if main_category not in INVENTORY: INVENTORY[main_category] = []
\* INVENTORY[main_category].append(record)
InventoryAppend(inv, key, rec) ==
    IF HasKey(inv, key)
    THEN [inv EXCEPT ![KeyIndex(inv, key)].models = Append(@, rec)]
    ELSE Append(inv, [key |-> key, models |-> <<rec>>])

\* the body of the for loop, for one line
ProcessLine(inv, line) ==
    LET parts == LineParts(line) IN
    IF IsRow(parts)
    THEN LET categories == Categories(parts) IN
         InventoryAppend(inv, MainCategory(categories),
                         [id |-> ModelId(parts), categories |-> categories])
    ELSE inv

\* open(INVENTORY_CSV, 'r', encoding='utf-8') succeeds
OpenOk ==
    /\ pc = "open"
    /\ pc' = "read"
    /\ UNCHANGED <<csv, pos, INVENTORY, reported>>
    /\ UNCHANGED reqVars

\* one iteration of "for line in f"
ReadLine ==
    /\ pc = "read"
    /\ pos < Len(csv)
    /\ INVENTORY' = ProcessLine(INVENTORY, csv[pos + 1])
    /\ pos' = pos + 1
    /\ UNCHANGED <<csv, pc, reported>>
    /\ UNCHANGED reqVars

\* open() or the next read of the file raises: the except branch runs, or the
\* exception leaves load_inventory and the import fails
LoadRaise ==
    /\ \E exc \in (IF pc = "open" THEN OpenErrors ELSE ReadErrors) :
          /\ pc \in {"open", "read"}
          /\ IF LoadCatches(exc)
             THEN pc' = "serve" /\ reported' = TRUE
             ELSE pc' = "crashed" /\ reported' = reported
    /\ UNCHANGED <<csv, pos, INVENTORY>>
    /\ UNCHANGED reqVars

\* end of file: the summary is printed and load_inventory returns
LoadDone ==
    /\ pc = "read"
    /\ pos = Len(csv)
    /\ pc' = "serve"
    /\ UNCHANGED <<csv, pos, INVENTORY, reported>>
    /\ UNCHANGED reqVars

(***************************************************************************)
(* JSON values and Python dicts.  A JSON value is a record of one shape;   *)
(* a float is kept in tenths (scale 1.0 is JFloat(10)).  A dict is a       *)
(* function from its keys to JSON values.                                  *)
(***************************************************************************)
JNull == [type |-> "null", num |-> 0, str |-> <<>>]
JInt(n) == [type |-> "int", num |-> n, str |-> <<>>]
JFloat(tenths) == [type |-> "float", num |-> tenths, str |-> <<>>]
JStr(s) == [type |-> "str", num |-> 0, str |-> s]

EmptyDict == [k \in {} |-> JNull]

\* {**a, **b}: the pairs of b win
DictMerge(a, b) ==
    [k \in (DOMAIN a) \cup (DOMAIN b) |-> IF k \in DOMAIN b THEN b[k] ELSE a[k]]

\* d.setdefault(k, v)
SetDefault(d, k, v) ==
    IF k \in DOMAIN d THEN d ELSE DictMerge(d, k :> v)

(***************************************************************************)
(* The value of request.get_json(): None, a dict, a list, a str or a       *)
(* number.                                                                 *)
(***************************************************************************)
DNone == [kind |-> "none", obj |-> EmptyDict, items |-> <<>>, text |-> <<>>, num |-> 0]
DDict(d) == [kind |-> "dict", obj |-> d, items |-> <<>>, text |-> <<>>, num |-> 0]
DList(l) == [kind |-> "list", obj |-> EmptyDict, items |-> l, text |-> <<>>, num |-> 0]
DStr(s) == [kind |-> "str", obj |-> EmptyDict, items |-> <<>>, text |-> s, num |-> 0]
DNum(n) == [kind |-> "num", obj |-> EmptyDict, items |-> <<>>, text |-> <<>>, num |-> n]

COMMAND == <<"command">>

\* the bodies a client sends
Bodies ==
    { DNone,
      DDict(EmptyDict),
      DDict("other" :> JStr(<<"x">>)),
      DDict("command" :> JStr(<<"spawn", " ", "a", " ", "chair">>)),
      DDict("command" :> JStr(<<>>)),
      DDict("command" :> JNull),
      DDict("command" :> JInt(5)),
      DList(<<>>),
      DList(<<JStr(<<"x">>)>>),
      DList(<<JStr(COMMAND)>>),
      DStr(<<"hello">>),
      DStr(<<"my", " ", "command">>),
      DNum(0),
      DNum(5) }

\* bool(data)
Truthy(data) ==
    CASE data.kind = "none" -> FALSE
      [] data.kind = "dict" -> DOMAIN data.obj # {}
      [] data.kind = "list" -> data.items # <<>>
      [] data.kind = "str" -> data.text # <<>>
      [] data.kind = "num" -> data.num # 0

\* 'command' in data raises TypeError: a number is not iterable
InRaises(data) == data.kind = "num"

\* mutant of HasCommand: the test is on the value, "if not data.get('command')"
HasCommandTruthy(data) ==
    /\ data.kind = "dict"
    /\ "command" \in DOMAIN data.obj
    /\ data.obj["command"] \notin {JNull, JStr(<<>>), JInt(0)}

\* 'command' in data
HasCommand(data) ==
    CASE data.kind = "dict" -> "command" \in DOMAIN data.obj
      [] data.kind = "list" -> \E i \in 1..Len(data.items) : data.items[i] = JStr(COMMAND)
      [] data.kind = "str" -> Contains(data.text, COMMAND)
      [] OTHER -> FALSE

\* data.get raises AttributeError: only a dict has get
GetRaises(data) == data.kind # "dict"

\* data.get('command', '')
UserCommand(data) ==
    IF "command" \in DOMAIN data.obj THEN data.obj["command"] ELSE JStr(<<>>)

(***************************************************************************)
(* The reply of client.messages.create: an exception, or a message with a  *)
(* stop_reason and a list of content blocks.                               *)
(***************************************************************************)
FURNITURE == <<"_furniture">>

\* the names of CLAUDE_TOOLS
ToolNames ==
    { <<"spawn">> \o FURNITURE, <<"delete">> \o FURNITURE,
      <<"scale">> \o FURNITURE, <<"modify">> \o FURNITURE }

\* a name outside CLAUDE_TOOLS, with "_furniture" inside it
OtherNames == { <<"move">> \o FURNITURE \o <<"_now">> }

\* the argument bags of the model: each key absent or present
ArgBags ==
    { DictMerge(DictMerge(DictMerge(a, q), DictMerge(s, c)), f) :
        a \in {EmptyDict, "action" :> JStr(<<"delete">>)},
        q \in {EmptyDict, "quantity" :> JInt(3), "quantity" :> JInt(0),
               "quantity" :> JNull},
        s \in {EmptyDict, "scale" :> JFloat(20), "scale" :> JNull},
        c \in {EmptyDict, "color" :> JStr(<<"blue">>)},
        f \in {EmptyDict, "scaleFactor" :> JFloat(20)} }

TextBlock(t) == [type |-> "text", text |-> t, name |-> <<>>, input |-> EmptyDict]
ToolBlock(n, args) == [type |-> "tool_use", text |-> <<>>, name |-> n, input |-> args]

Texts == { <<"Done!">>, <<"I can spawn chairs, tables, and sofas.">> }

\* the blocks beside the tool_use block under study
SideBlocks ==
    {TextBlock(t) : t \in Texts} \cup {ToolBlock(<<"delete">> \o FURNITURE, EmptyDict)}

Contents ==
    UNION { BoundedSeq(SideBlocks \cup {ToolBlock(n, args)}, MaxBlocks) :
              n \in ToolNames \cup OtherNames, args \in ArgBags }

NoReply == [raises |-> "none", stop_reason |-> "none", content |-> <<>>]

LLMReplies ==
    {[raises |-> e, stop_reason |-> "none", content |-> <<>>] : e \in LLMErrors}
    \cup {[raises |-> "none", stop_reason |-> r, content |-> c] :
            r \in {"tool_use", "end_turn"}, c \in Contents}

(***************************************************************************)
(* Responses.                                                              *)
(***************************************************************************)
NoResponse == [status |-> 0, mimetype |-> "", body |-> EmptyDict]

\* return jsonify(body), status
Json(status, body) == [status |-> status, mimetype |-> "application/json", body |-> body]

\* send_file(path, mimetype=...)
File(mimetype) == [status |-> 200, mimetype |-> mimetype, body |-> EmptyDict]

\* what Flask answers when an exception leaves a view function
FlaskError == [status |-> 500, mimetype |-> "text/html", body |-> EmptyDict]

\* exists is what os.path.exists answered for the file of an asset request
NoRequest ==
    [endpoint |-> "", data |-> DNone, path |-> <<>>, prompt |-> <<>>, exists |-> FALSE]

(***************************************************************************)
(* process_command                                                         *)
(***************************************************************************)
ContextCategories == 10
ContextModels == 15

UpperAtom(c) ==
    CASE c = "a" -> "A"
      [] c = "b" -> "B"
      [] c = "chair" -> "CHAIR"
      [] OTHER -> c

\* str.upper()
Upper(s) == [i \in 1..Len(s) |-> UpperAtom(s[i])]

\* s[:n]
Prefix(s, n) == SubSeq(s, 1, IF Len(s) < n THEN Len(s) ELSE n)

\* the inventory excerpt put into the system prompt: the first 10 categories,
\* the first 15 models of each
InventoryContext(inv) ==
    [i \in 1..Len(Prefix(inv, ContextCategories)) |->
        [category |-> Upper(inv[i].key),
         models |-> Prefix(inv[i].models, ContextModels)]]

HasToolUse(content) == \E i \in 1..Len(content) : content[i].type = "tool_use"

\* next(block for block in response.content if block.type == "tool_use")
FirstToolUse(content) ==
    content[CHOOSE i \in 1..Len(content) :
              /\ content[i].type = "tool_use"
              /\ \A j \in 1..(i - 1) : content[j].type # "tool_use"]

\* hasattr(block, "text")
HasText(block) == block.type = "text"

\* next((block.text for block in response.content if hasattr(block, "text")), "")
TextContent(content) ==
    IF \E i \in 1..Len(content) : HasText(content[i])
    THEN content[CHOOSE i \in 1..Len(content) :
                   /\ HasText(content[i])
                   /\ \A j \in 1..(i - 1) : ~HasText(content[j])].text
    ELSE <<>>

\* function_name.replace("_furniture", "")
ToolAction(function_name) == Replace(function_name, FURNITURE, <<>>)

\* mutant of ToolDict: the action is written after the arguments,
\* {**function_args, "action": ...}
ToolDictActionLast(function_name, function_args) ==
    DictMerge(function_args, "action" :> JStr(ToolAction(function_name)))

\* result = {"action": ..., **function_args}
ToolDict(function_name, function_args) ==
    DictMerge("action" :> JStr(ToolAction(function_name)), function_args)

\* mutant of WithDefaults: a null value counts as absent,
\* result['quantity'] = result.get('quantity') or 1
WithDefaultsFalsy(result) ==
    LET Or(k, v) == IF k \in DOMAIN result /\ result[k] # JNull THEN result[k] ELSE v IN
    DictMerge(result, ("quantity" :> Or("quantity", JInt(1)))
                      @@ ("scale" :> Or("scale", JFloat(10))))

\* result.setdefault('quantity', 1); result.setdefault('scale', 1.0)
WithDefaults(result) ==
    SetDefault(SetDefault(result, "quantity", JInt(1)), "scale", JFloat(10))

\* the tool_use branch
ToolResult(tool_use) == WithDefaults(ToolDict(tool_use.name, tool_use.input))

\* mutant of QueryResult: the defaults of the tool branch are applied here too
QueryResultDefaults(content) ==
    WithDefaults(("action" :> JStr(<<"query">>))
                 @@ ("response" :> JStr(TextContent(content))))

\* the else branch
QueryResult(content) ==
    ("action" :> JStr(<<"query">>)) @@ ("response" :> JStr(TextContent(content)))

\* the exception the try block raises for this reply, "none" when it raises none
TryRaises(reply) ==
    IF reply.raises # "none" THEN reply.raises
    ELSE IF reply.stop_reason = "tool_use" /\ ~HasToolUse(reply.content)
         THEN "StopIteration"
         ELSE "none"

\* mutant of ProcessCatches: only the errors of the API client are caught
ProcessCatchesAPI(exc) == exc \in LLMErrors

\* except Exception as e: (process_command)
ProcessCatches(exc) == exc \in ExceptionSubclasses

\* return jsonify({"error": error_msg}), 500
LLMErrorResponse(exc) == Json(500, "error" :> JStr(<<"LLM Error: ", exc>>))

\* the try statement of process_command, given the reply of the LLM
TryResponse(reply) ==
    LET exc == TryRaises(reply) IN
    IF exc # "none"
    THEN IF ProcessCatches(exc) THEN LLMErrorResponse(exc) ELSE FlaskError
    ELSE IF reply.stop_reason = "tool_use"
         THEN Json(200, ToolResult(FirstToolUse(reply.content)))
         ELSE Json(200, QueryResult(reply.content))

\* return jsonify({"error": "No command provided"}), 400
NoCommandResponse == Json(400, "error" :> JStr(<<"No command provided">>))

\* data = request.get_json(); if not data or 'command' not in data: return 400;
\* user_command = data.get('command', ''): the response when these statements
\* end the request, NoResponse when the try block is reached
BeforeTry(data) ==
    IF ~Truthy(data) THEN NoCommandResponse
    ELSE IF InRaises(data) THEN FlaskError
    ELSE IF ~HasCommand(data) THEN NoCommandResponse
    ELSE IF GetRaises(data) THEN FlaskError
    ELSE NoResponse

\* the request gets as far as client.messages.create
ReachesLLM(data) == BeforeTry(data) = NoResponse

\* the request-scoped values of process_command for one body and one reply
Handled(data, reply) ==
    /\ request' = [endpoint |-> "process_command", data |-> data, path |-> <<>>,
                   prompt |-> IF ReachesLLM(data)
                              THEN <<UserCommand(data), InventoryContext(INVENTORY)>>
                              ELSE <<>>,
                   exists |-> FALSE]
    /\ llmReply' = IF ReachesLLM(data) THEN reply ELSE NoReply
    /\ llmCalls' = IF ReachesLLM(data) THEN 1 ELSE 0
    /\ response' = IF ReachesLLM(data) THEN TryResponse(reply) ELSE BeforeTry(data)

\* the server is up and no request is being answered
Idle == pc = "serve" /\ response = NoResponse

\* mutant of ContextLoop: the handler calls load_inventory() again to refresh
\* the index, which appends every record of the file a second time
ContextLoopReloads(inv) ==
    [i \in 1..Len(inv) |-> [inv[i] EXCEPT !.models = @ \o @]]

\* INVENTORY after the loops that build inventory_context: they iterate over
\* the copies list(INVENTORY.items())[:10] and models[:15] and only read
ContextLoop(inv) == inv

\* POST /api/process_command
ProcessCommand ==
    /\ Idle
    /\ \E data \in Bodies :
          IF ReachesLLM(data)
          THEN /\ \E reply \in LLMReplies : Handled(data, reply)
               /\ INVENTORY' = ContextLoop(INVENTORY)
          ELSE /\ Handled(data, NoReply)
               /\ INVENTORY' = INVENTORY
    /\ UNCHANGED <<csv, pos, pc, reported>>
    /\ UNCHANGED inflight

(***************************************************************************)
(* The other endpoints of llm_server.py                                    *)
(***************************************************************************)
\* return jsonify({"status": "ok", "message": ...}), 200
PingResponse ==
    Json(200, ("status" :> JStr(<<"ok">>))
              @@ ("message" :> JStr(<<"LLM server is running (JSON mode)">>)))

\* GET /ping
Ping ==
    /\ Idle
    /\ request' = [endpoint |-> "ping", data |-> DNone, path |-> <<>>, prompt |-> <<>>,
                   exists |-> FALSE]
    /\ llmReply' = NoReply
    /\ llmCalls' = 0
    /\ response' = PingResponse
    /\ UNCHANGED loadVars
    /\ UNCHANGED inflight

GlbIds == { <<"abc123">>, <<"missing">> }

\* the body of serve_glb
GlbResponse(glb_id, exists, exc) ==
    IF ~exists
    THEN Json(404, "error" :> JStr(<<"GLB file not found: ">> \o glb_id))
    ELSE IF exc # "none"
         THEN Json(500, "error" :> JStr(<<"GLB serving error: ", exc>>))
         ELSE File("model/gltf-binary")

\* GET /glb/<glb_id>; exists is os.path.exists(glb_path), exc what
\* os.path.getsize or send_file raises
ServeGlb ==
    /\ Idle
    /\ \E glb_id \in GlbIds, exists \in BOOLEAN, exc \in {"none", "OSError"} :
          /\ request' = [endpoint |-> "glb", data |-> DNone, path |-> glb_id \o <<".glb">>,
                         prompt |-> <<>>, exists |-> exists]
          /\ response' = GlbResponse(glb_id, exists, exc)
    /\ llmReply' = NoReply
    /\ llmCalls' = 0
    /\ UNCHANGED loadVars
    /\ UNCHANGED inflight

\* the body of serve_inventory
CsvResponse(exists, exc) ==
    IF ~exists
    THEN Json(404, "error" :> JStr(<<"Inventory CSV not found">>))
    ELSE IF exc # "none"
         THEN Json(500, "error" :> JStr(<<"CSV serving error: ", exc>>))
         ELSE File("text/csv")

\* GET /inventory.csv
ServeInventory ==
    /\ Idle
    /\ \E exists \in BOOLEAN, exc \in {"none", "OSError"} :
          /\ request' = [endpoint |-> "inventory.csv", data |-> DNone, path |-> <<>>,
                         prompt |-> <<>>, exists |-> exists]
          /\ response' = CsvResponse(exists, exc)
    /\ llmReply' = NoReply
    /\ llmCalls' = 0
    /\ UNCHANGED loadVars
    /\ UNCHANGED inflight

(***************************************************************************)
(* glb_server.py: the asset server.  Its requests are observed in the same *)
(* request variables as those of llm_server.py.                            *)
(***************************************************************************)
ModelCategories == { <<"chair">>, <<"table">> }
ModelFiles == { <<"12345.glb">>, <<"missing.glb">> }

\* return jsonify({"status": "error", "message": message}), status
ModelError(status, message) ==
    Json(status, ("status" :> JStr(<<"error">>)) @@ ("message" :> JStr(message)))

\* GET /models/<category>/<filename>; exists is os.path.exists(file_path), exc
\* what send_file raises
GetModel ==
    /\ Idle
    /\ \E category \in ModelCategories, filename \in ModelFiles,
          exists \in BOOLEAN, exc \in {"none", "OSError"} :
          /\ request' = [endpoint |-> "models", data |-> DNone,
                         path |-> category \o <<"/">> \o filename,
                         prompt |-> <<>>, exists |-> exists]
          /\ response' =
               IF ~exists
               THEN ModelError(404, <<"File not found: ">> \o category \o <<"/">> \o filename)
               ELSE IF exc # "none"
                    THEN ModelError(500, <<exc>>)
                    ELSE File("model/gltf-binary")
    /\ llmReply' = NoReply
    /\ llmCalls' = 0
    /\ UNCHANGED loadVars
    /\ UNCHANGED inflight

(***************************************************************************)
(* The threads of the server (app.run serves each request in a thread of   *)
(* its own).  A thread runs a handler up to the call of the LLM in one     *)
(* step, waits for the reply, and finishes the handler in a second step;   *)
(* the handlers that call nothing run in one step.                         *)
(***************************************************************************)
Threads == 1..MaxInFlight

FreeSlot ==
    [stage |-> "free", endpoint |-> "", data |-> DNone, prompt |-> <<>>,
     reply |-> NoReply, response |-> NoResponse]

\* the bodies and the replies of the requests handled concurrently
ConcBodies ==
    { DNone,
      DDict("command" :> JStr(<<"spawn", " ", "a", " ", "chair">>)),
      DList(<<JStr(COMMAND)>>) }

ConcReplies ==
    { [raises |-> "APITimeoutError", stop_reason |-> "none", content |-> <<>>],
      [raises |-> "none", stop_reason |-> "tool_use",
       content |-> <<TextBlock(<<"Done!">>)>>],
      [raises |-> "none", stop_reason |-> "tool_use",
       content |-> <<ToolBlock(<<"spawn">> \o FURNITURE, "color" :> JStr(<<"blue">>))>>],
      [raises |-> "none", stop_reason |-> "end_turn",
       content |-> <<TextBlock(<<"Done!">>)>>] }

\* process_command up to client.messages.create, or to its return when the
\* request is answered before the try block
ConcBegin(t) ==
    /\ pc = "serve"
    /\ inflight[t].stage = "free"
    /\ \E data \in ConcBodies :
          IF ReachesLLM(data)
          THEN /\ inflight' = [inflight EXCEPT ![t] =
                     [stage |-> "calling", endpoint |-> "process_command", data |-> data,
                      prompt |-> <<UserCommand(data), InventoryContext(INVENTORY)>>,
                      reply |-> NoReply, response |-> NoResponse]]
               /\ INVENTORY' = ContextLoop(INVENTORY)
          ELSE /\ inflight' = [inflight EXCEPT ![t] =
                     [stage |-> "done", endpoint |-> "process_command", data |-> data,
                      prompt |-> <<>>, reply |-> NoReply, response |-> BeforeTry(data)]]
               /\ INVENTORY' = INVENTORY
    /\ UNCHANGED <<csv, pos, pc, reported, request, llmReply, llmCalls, response>>

\* client.messages.create returns or raises: the rest of the try statement
ConcReply(t) ==
    /\ pc = "serve"
    /\ inflight[t].stage = "calling"
    /\ \E reply \in ConcReplies :
          inflight' = [inflight EXCEPT ![t].stage = "done", ![t].reply = reply,
                                       ![t].response = TryResponse(reply)]
    /\ UNCHANGED <<loadVars, request, llmReply, llmCalls, response>>

\* ping, serve_glb or serve_inventory, each in one step
ConcOther(t) ==
    /\ pc = "serve"
    /\ inflight[t].stage = "free"
    /\ \E r \in [endpoint : {"ping"}, response : {PingResponse}]
              \cup [endpoint : {"glb"},
                    response : {GlbResponse(<<"abc123">>, x, e) :
                                  x \in BOOLEAN, e \in {"none", "OSError"}}]
              \cup [endpoint : {"inventory.csv"},
                    response : {CsvResponse(x, e) :
                                  x \in BOOLEAN, e \in {"none", "OSError"}}] :
          inflight' = [inflight EXCEPT ![t] =
              [stage |-> "done", endpoint |-> r.endpoint, data |-> DNone, prompt |-> <<>>,
               reply |-> NoReply, response |-> r.response]]
    /\ UNCHANGED <<loadVars, request, llmReply, llmCalls, response>>

\* the response of the thread is sent and the thread is free again
ConcSend(t) ==
    /\ pc = "serve"
    /\ inflight[t].stage = "done"
    /\ inflight' = [inflight EXCEPT ![t] = FreeSlot]
    /\ UNCHANGED <<loadVars, request, llmReply, llmCalls, response>>

Begin == \E t \in Threads : ConcBegin(t)
Reply == \E t \in Threads : ConcReply(t)
Other == \E t \in Threads : ConcOther(t)
Send == \E t \in Threads : ConcSend(t)

(***************************************************************************)
(* llm_server_option_b.py: the reply of the LLM is a text in which the     *)
(* handler looks for a JSON object.  The atoms of a text are the braces,   *)
(* the comma, the blank, whole members ("key":value) and a word.           *)
(***************************************************************************)
MemberAtoms == { "\"action\":\"spawn\"", "\"quantity\":3", "\"scale\":null" }

TextAtoms == {"{", "}", ",", " ", "Sure"} \cup MemberAtoms

MemberKey(a) ==
    CASE a = "\"action\":\"spawn\"" -> "action"
      [] a = "\"quantity\":3" -> "quantity"
      [] a = "\"scale\":null" -> "scale"

MemberValue(a) ==
    CASE a = "\"action\":\"spawn\"" -> JStr(<<"spawn">>)
      [] a = "\"quantity\":3" -> JInt(3)
      [] a = "\"scale\":null" -> JNull

\* the replies of client.chat.completions.create: an exception, a message
\* whose content is None (finish reason "tool_calls"), or a message with a text
RepliesB ==
    {[raises |-> e, stop_reason |-> "none", content |-> <<>>] : e \in LLMErrors}
    \cup {[raises |-> "none", stop_reason |-> "tool_calls", content |-> <<>>]}
    \cup {[raises |-> "none", stop_reason |-> "stop", content |-> c] :
            c \in BoundedSeq(TextAtoms, MaxTextLen)}

\* response.choices[0].message.content is None
ContentIsNone(reply) == reply.stop_reason = "tool_calls"

\* llm_text = response.choices[0].message.content.strip()
LlmText(content) == Strip(content)

\* index of the last occurrence of atom c in s, 0 when there is none
FindLast(s, c) ==
    IF \E i \in 1..Len(s) : s[i] = c
    THEN CHOOSE i \in 1..Len(s) : s[i] = c /\ \A j \in (i + 1)..Len(s) : s[j] # c
    ELSE 0

\* json_match = re.search(r'\{.*\}', llm_text, re.DOTALL) is not None
HasSpan(text) ==
    FindFirst(text, "{") # 0 /\ FindFirst(text, "{") < FindLast(text, "}")

\* json_match.group(0): from the first "{" to the last "}"
Span(text) == SubSeq(text, FindFirst(text, "{"), FindLast(text, "}"))

\* the tokens between the braces of a span, whitespace dropped
SpanTokens(span) ==
    SelectSeq(SubSeq(span, 2, Len(span) - 1), LAMBDA a : a \notin Whitespace)

\* json.loads(json_str) does not raise: members separated by commas
JsonParses(span) ==
    LET toks == SpanTokens(span) IN
    \/ toks = <<>>
    \/ /\ Len(toks) % 2 = 1
       /\ \A i \in 1..Len(toks) :
             IF i % 2 = 1 THEN toks[i] \in MemberAtoms ELSE toks[i] = ","

RECURSIVE MembersDict(_, _)
MembersDict(toks, n) ==
    IF n = 0 THEN EmptyDict
    ELSE IF toks[n] \in MemberAtoms
         THEN DictMerge(MembersDict(toks, n - 1), MemberKey(toks[n]) :> MemberValue(toks[n]))
         ELSE MembersDict(toks, n - 1)

\* json.loads(json_str): the object, a later member replacing an earlier one
JsonLoads(span) == MembersDict(SpanTokens(span), Len(SpanTokens(span)))

\* result.setdefault('action', 'query'); setdefault('quantity', 1);
\* setdefault('scale', 1.0)
WithDefaultsB(result) ==
    SetDefault(SetDefault(SetDefault(result, "action", JStr(<<"query">>)),
                          "quantity", JInt(1)), "scale", JFloat(10))

\* the else branch: no JSON found, the text is answered as a query
NoJsonResponse(llm_text, user_command) ==
    Json(200, ("action" :> JStr(<<"query">>)) @@ ("response" :> JStr(llm_text))
              @@ ("command" :> user_command))

\* mutant of DecodeErrorResponse: the parse error reaches "except Exception"
DecodeErrorResponse500(llm_text) ==
    Json(500, "error" :> JStr(<<"LLM Error: ", "JSONDecodeError">>))

\* except json.JSONDecodeError as e:
DecodeErrorResponse(llm_text) ==
    Json(200, ("action" :> JStr(<<"query">>)) @@ ("response" :> JStr(llm_text))
              @@ ("error" :> JStr(<<"Invalid JSON from LLM">>)))

\* the try statement of process_command of option B
TryResponseB(reply, user_command) ==
    IF reply.raises # "none" THEN LLMErrorResponse(reply.raises)
    ELSE IF ContentIsNone(reply) THEN LLMErrorResponse("AttributeError")
    ELSE LET llm_text == LlmText(reply.content) IN
         IF HasSpan(llm_text)
         THEN IF JsonParses(Span(llm_text))
              THEN Json(200, WithDefaultsB(JsonLoads(Span(llm_text))))
              ELSE DecodeErrorResponse(llm_text)
         ELSE NoJsonResponse(llm_text, user_command)

BodiesB ==
    { DNone,
      DDict("other" :> JStr(<<"x">>)),
      DDict("command" :> JStr(<<"spawn", " ", "a", " ", "chair">>)) }

HandledB(data, reply) ==
    /\ request' = [endpoint |-> "process_command", data |-> data, path |-> <<>>,
                   prompt |-> IF ReachesLLM(data) THEN <<UserCommand(data)>> ELSE <<>>,
                   exists |-> FALSE]
    /\ llmReply' = IF ReachesLLM(data) THEN reply ELSE NoReply
    /\ llmCalls' = IF ReachesLLM(data) THEN 1 ELSE 0
    /\ response' = IF ReachesLLM(data)
                   THEN TryResponseB(reply, UserCommand(data))
                   ELSE BeforeTry(data)

\* POST /api/process_command of option B
ProcessCommandB ==
    /\ Idle
    /\ \E data \in BodiesB :
          IF ReachesLLM(data)
          THEN \E reply \in RepliesB : HandledB(data, reply)
          ELSE HandledB(data, NoReply)
    /\ UNCHANGED loadVars
    /\ UNCHANGED inflight

\* GET /ping of option B
PingB ==
    /\ Idle
    /\ request' = [endpoint |-> "ping", data |-> DNone, path |-> <<>>, prompt |-> <<>>,
                   exists |-> FALSE]
    /\ llmReply' = NoReply
    /\ llmCalls' = 0
    /\ response' = Json(200, ("status" :> JStr(<<"ok">>))
                             @@ ("message" :>
                                   JStr(<<"LLM server running (Option B - JSON mode)">>)))
    /\ UNCHANGED loadVars
    /\ UNCHANGED inflight

(***************************************************************************)
(* Specifications.                                                         *)
(*   Spec      the server: the import of the module (load_inventory on a   *)
(*             small file) followed by any sequence of requests            *)
(*   SpecLoad  load_inventory alone, on every file of at most MaxLines     *)
(*             lines of LineSet                                            *)
(*   SpecConc  the server with MaxInFlight threads: the import of the      *)
(*             module followed by requests handled at the same time        *)
(*   SpecB     the server of llm_server_option_b.py, which has no          *)
(*             inventory: any sequence of requests                         *)
(***************************************************************************)
\* the response is sent; the values of the request are discarded
ResponseSent ==
    /\ pc = "serve"
    /\ response # NoResponse
    /\ request' = NoRequest
    /\ llmReply' = NoReply
    /\ llmCalls' = 0
    /\ response' = NoResponse
    /\ UNCHANGED loadVars
    /\ UNCHANGED inflight

ServeFiles ==
    { <<>>,
      <<<<"a", ",", "Chair">>>>,
      <<<<"a", ",", "Chair">>, <<"a">>, <<"b", ",", "\"", "Chair", ",", "OfficeChair", "\"">>>> }

InitRest ==
    /\ pos = 0
    /\ pc = "open"
    /\ INVENTORY = <<>>
    /\ reported = FALSE
    /\ request = NoRequest
    /\ llmReply = NoReply
    /\ llmCalls = 0
    /\ response = NoResponse
    /\ inflight = [t \in Threads |-> FreeSlot]

Init == csv \in ServeFiles /\ InitRest

InitLoad == csv \in BoundedSeq(LineSet, MaxLines) /\ InitRest

Next == OpenOk \/ ReadLine \/ LoadRaise \/ LoadDone
        \/ Ping \/ ProcessCommand \/ ServeGlb \/ ServeInventory \/ GetModel
        \/ ResponseSent

NextLoad == OpenOk \/ ReadLine \/ LoadRaise \/ LoadDone

Spec == Init /\ [][Next]_vars

SpecLoad == InitLoad /\ [][NextLoad]_vars

NextConc == OpenOk \/ ReadLine \/ LoadRaise \/ LoadDone
            \/ Begin \/ Reply \/ Other \/ Send

SpecConc == Init /\ [][NextConc]_vars

InitB ==
    /\ csv = <<>>
    /\ pos = 0
    /\ pc = "serve"
    /\ INVENTORY = <<>>
    /\ reported = FALSE
    /\ request = NoRequest
    /\ llmReply = NoReply
    /\ llmCalls = 0
    /\ response = NoResponse
    /\ inflight = [t \in Threads |-> FreeSlot]

NextB == ProcessCommandB \/ PingB \/ ResponseSent

SpecB == InitB /\ [][NextB]_vars

(***************************************************************************)
(* Properties of process_command.                                          *)
(***************************************************************************)
\* a process_command request has been answered
Answered == request.endpoint = "process_command" /\ response # NoResponse

\* the reply of the LLM was a message whose stop_reason is "tool_use" and that
\* holds a tool_use block
ToolPath ==
    /\ Answered
    /\ llmCalls > 0
    /\ llmReply.raises = "none"
    /\ llmReply.stop_reason = "tool_use"
    /\ \E i \in 1..Len(llmReply.content) : llmReply.content[i].type = "tool_use"

\* the reply of the LLM was a message with another stop_reason
NoToolPath ==
    /\ Answered
    /\ llmCalls > 0
    /\ llmReply.raises = "none"
    /\ llmReply.stop_reason # "tool_use"

\* the tool invocation of the reply: its first tool_use block
Invoked == FirstToolUse(llmReply.content)

\* s without its suffix suf, s itself when it does not end in suf
RemoveSuffix(s, suf) ==
    IF Len(s) >= Len(suf) /\ SubSeq(s, Len(s) - Len(suf) + 1, Len(s)) = suf
    THEN SubSeq(s, 1, Len(s) - Len(suf))
    ELSE s

\* C1: for every tool invocation (any tool name, any argument bag) the
\* 'action' of the returned JSON is the tool name without its suffix
\* '_furniture'.
C1_ActionIsToolName ==
    ToolPath =>
        /\ response.status = 200
        /\ "action" \in DOMAIN response.body
        /\ response.body["action"] = JStr(RemoveSuffix(Invoked.name, FURNITURE))

\* C2: on the tool path every key/value pair of the argument bag is in the
\* returned action unchanged, and the returned action has no key besides
\* 'action', the keys of the bag, 'quantity' and 'scale'.
C2_ArgumentsVerbatim ==
    ToolPath =>
        /\ response.status = 200
        /\ response.mimetype = "application/json"
        /\ \A k \in DOMAIN Invoked.input :
              k \in DOMAIN response.body /\ response.body[k] = Invoked.input[k]
        /\ DOMAIN response.body =
              {"action", "quantity", "scale"} \cup DOMAIN Invoked.input

\* C2 witness: a tool call whose bag has an 'action' and a 'color' was answered
C2_Witness ==
    /\ ToolPath
    /\ {"action", "color"} \subseteq DOMAIN Invoked.input
    /\ response.status = 200
    /\ response.body["color"] = JStr(<<"blue">>)

\* C3: on the tool path 'quantity' is 1 exactly when the bag has no 'quantity'
\* and 'scale' is 1.0 exactly when the bag has no 'scale'; a supplied
\* 'quantity' or 'scale' is returned unchanged.
C3_DefaultsOnlyWhenAbsent ==
    ToolPath =>
        /\ {"quantity", "scale"} \subseteq DOMAIN response.body
        /\ response.body["quantity"] =
              IF "quantity" \in DOMAIN Invoked.input
              THEN Invoked.input["quantity"] ELSE JInt(1)
        /\ response.body["scale"] =
              IF "scale" \in DOMAIN Invoked.input
              THEN Invoked.input["scale"] ELSE JFloat(10)

\* C3 witness: delete_furniture({}) was answered with
\* {action: 'delete', quantity: 1, scale: 1.0}
C3_Witness ==
    /\ ToolPath
    /\ Invoked.name = <<"delete", "_furniture">>
    /\ Invoked.input = EmptyDict
    /\ response.status = 200
    /\ DOMAIN response.body = {"action", "quantity", "scale"}
    /\ response.body["action"] = JStr(<<"delete">>)
    /\ response.body["quantity"] = JInt(1)
    /\ response.body["scale"] = JFloat(10)

\* C4: when the reply of the LLM invokes no tool the response is 200 with
\* exactly {action: 'query', response: text}, text being the free text of the
\* reply (the text of its first text block, '' when it has none) verbatim.
C4_QueryCarriesText ==
    NoToolPath =>
        /\ response.status = 200
        /\ response.mimetype = "application/json"
        /\ DOMAIN response.body = {"action", "response"}
        /\ response.body["action"] = JStr(<<"query">>)
        /\ \A i \in 1..Len(llmReply.content) :
              (/\ llmReply.content[i].type = "text"
               /\ \A j \in 1..(i - 1) : llmReply.content[j].type # "text")
              => response.body["response"] = JStr(llmReply.content[i].text)
        /\ (\A i \in 1..Len(llmReply.content) : llmReply.content[i].type # "text")
              => response.body["response"] = JStr(<<>>)

\* C4 witness: the free text 'I can spawn chairs, tables, and sofas.' was
\* answered as a query
C4_Witness ==
    /\ NoToolPath
    /\ Len(llmReply.content) = 2
    /\ llmReply.content[1] = TextBlock(<<"I can spawn chairs, tables, and sofas.">>)
    /\ llmReply.content[2] = TextBlock(<<"Done!">>)
    /\ response.body["response"] = JStr(<<"I can spawn chairs, tables, and sofas.">>)

\* the body is absent or empty, or is an object without the key 'command'
MissingCommand(data) ==
    \/ data.kind = "none"
    \/ data.kind = "dict" /\ "command" \notin DOMAIN data.obj

\* the body is an object with the key 'command'
CarriesCommand(data) == data.kind = "dict" /\ "command" \in DOMAIN data.obj

\* C5: a body that is absent, empty or without 'command' is answered 400 with
\* an {error} body and without a call of the LLM; a body that carries
\* 'command' is never answered 400.
C5_MissingCommandIs400 ==
    Answered =>
        /\ MissingCommand(request.data) =>
              /\ response.status = 400
              /\ response.mimetype = "application/json"
              /\ DOMAIN response.body = {"error"}
              /\ llmCalls = 0
              /\ llmReply = NoReply
        /\ CarriesCommand(request.data) => response.status # 400

\* C5 witness: the body {"other": "x"} was answered 400
C5_Witness ==
    /\ Answered
    /\ request.data = DDict("other" :> JStr(<<"x">>))
    /\ response.status = 400
    /\ llmCalls = 0

\* the call of the LLM raised, or its reply cannot be interpreted: the
\* stop_reason is "tool_use" and no block is a tool_use block
LLMFailure ==
    /\ Answered
    /\ llmCalls > 0
    /\ \/ llmReply.raises # "none"
       \/ /\ llmReply.stop_reason = "tool_use"
          /\ \A i \in 1..Len(llmReply.content) : llmReply.content[i].type # "tool_use"

\* C6: a failure while process_command invokes the LLM ends the request with
\* one 500 response carrying an {error} body, after a single call of the LLM,
\* and the server stays up with its inventory for the requests that follow.
C6_LLMFailureIs500 ==
    LLMFailure =>
        /\ response.status = 500
        /\ response.mimetype = "application/json"
        /\ DOMAIN response.body = {"error"}
        /\ llmCalls = 1
        /\ pc = "serve"

\* C6 witness: a reply with stop_reason "tool_use" and no tool_use block was
\* answered 500
C6_Witness ==
    /\ LLMFailure
    /\ llmReply.raises = "none"
    /\ llmReply.stop_reason = "tool_use"
    /\ Len(llmReply.content) = 1
    /\ response.status = 500
    /\ response.body = ("error" :> JStr(<<"LLM Error: ", "StopIteration">>))

\* the body is not a JSON object, or its 'command' is not a string
Malformed(data) ==
    \/ data.kind # "dict"
    \/ "command" \in DOMAIN data.obj /\ data.obj["command"].type # "str"

\* C7: a request whose command text is malformed (the body is not a JSON
\* object, or 'command' is null or not a string) is answered 400, never 200 or
\* 500, and is not forwarded to the LLM.
C7_MalformedIs400 ==
    (Answered /\ Malformed(request.data)) =>
        /\ response.status = 400
        /\ llmCalls = 0

(***************************************************************************)
(* Properties of load_inventory.                                           *)
(***************************************************************************)
\* C8: every record stored in INVENTORY under key k has k equal to the
\* lowercased first comma-separated token of its 'categories'.
C8_KeyIsLowerFirstCategory ==
    \A i \in 1..Len(INVENTORY) :
        \A j \in 1..Len(INVENTORY[i].models) :
            INVENTORY[i].key = Lower(SplitHead(INVENTORY[i].models[j].categories, ","))

\* C8 witness: the row abc123,"Chair,OfficeChair" is stored under 'chair' as
\* {id: 'abc123', categories: 'Chair,OfficeChair'}
C8_Witness ==
    /\ pc = "serve"
    /\ \E i \in 1..Len(INVENTORY) :
          /\ INVENTORY[i].key = <<"chair">>
          /\ \E j \in 1..Len(INVENTORY[i].models) :
                INVENTORY[i].models[j] =
                    [id |-> <<"abc123">>, categories |-> <<"Chair", ",", "OfficeChair">>]

\* the line has a comma: it splits into two parts on its first comma
HasComma(line) == \E i \in 1..Len(line) : line[i] = ","

RECURSIVE SumLen(_, _)
SumLen(inv, n) == IF n = 0 THEN 0 ELSE Len(inv[n].models) + SumLen(inv, n - 1)

\* the number of records of the index
TotalRecords(inv) == SumLen(inv, Len(inv))

\* inv is old with one record appended to the list of one key
OneAppended(old, inv) ==
    \E i \in 1..Len(inv) :
        LET m == inv[i].models IN
        /\ m # <<>>
        /\ IF Len(m) = 1
           THEN i = Len(inv) /\ old = SubSeq(inv, 1, Len(inv) - 1)
           ELSE old = [inv EXCEPT ![i].models = SubSeq(m, 1, Len(m) - 1)]

\* C9: a line without a second field is dropped and leaves the index as it
\* is; every other line appends one record to the end of the list of its
\* category, also when its id is already in the index; the number of records
\* is the number of lines with a second field among those consumed.
C9_OneRecordPerRow ==
    /\ [](TotalRecords(INVENTORY)
            = Cardinality({i \in 1..pos : HasComma(csv[i])}))
    /\ [][pos' = pos + 1 =>
            IF HasComma(csv[pos + 1])
            THEN OneAppended(INVENTORY, INVENTORY')
            ELSE INVENTORY' = INVENTORY]_vars

\* C9 witness: of three lines the second has no comma and the other two have
\* the same id and category: the list of the category holds both records
C9_Witness ==
    /\ pc = "serve"
    /\ pos = 3
    /\ csv[1] = <<"a", ",", "B">>
    /\ csv[2] = <<"a">>
    /\ csv[3] = <<"a", ",", "\"", "B", "\"">>
    /\ Len(INVENTORY) = 1
    /\ Len(INVENTORY[1].models) = 2
    /\ INVENTORY[1].models[1] = INVENTORY[1].models[2]

\* C10: if reading the CSV fails at any point, load_inventory returns without
\* raising, the failure is reported and INVENTORY is empty afterwards.
C10_FailedLoadLeavesEmpty ==
    (reported \/ pc = "crashed") =>
        /\ pc = "serve"
        /\ reported
        /\ INVENTORY = <<>>

(***************************************************************************)
(* Properties of the asset endpoints.                                      *)
(***************************************************************************)
\* a request for a model file has been answered
AssetAnswered == request.endpoint \in {"glb", "models"} /\ response # NoResponse

\* C11: an asset request (GET /models/{category}/{filename}, GET /glb/{id})
\* whose file does not exist is answered 404 with the body {status: 'error',
\* message}, the message of /models being 'File not found:
\* {category}/{filename}'; when the file exists and is sent, the answer has
\* the media type model/gltf-binary.
C11_MissingAssetIs404 ==
    AssetAnswered =>
        /\ ~request.exists =>
              /\ response.status = 404
              /\ response.mimetype = "application/json"
              /\ DOMAIN response.body = {"status", "message"}
              /\ response.body["status"] = JStr(<<"error">>)
              /\ request.endpoint = "models" =>
                    response.body["message"] = JStr(<<"File not found: ">> \o request.path)
        /\ request.exists =>
              /\ response.status # 404
              /\ response.status = 200 => response.mimetype = "model/gltf-binary"

(***************************************************************************)
(* The wire contract of process_command.                                   *)
(***************************************************************************)
\* the action names of a CanonicalAction
CanonicalActions == { <<"spawn">>, <<"delete">>, <<"modify">>, <<"scale">>, <<"query">> }

\* an integer that is at least 1
IsQuantity(v) == v.type = "int" /\ v.num >= 1

\* a number in [0.1, 5.0]; a float is kept in tenths
IsScale(v) ==
    \/ v.type = "float" /\ v.num >= 1 /\ v.num <= 50
    \/ v.type = "int" /\ v.num >= 1 /\ v.num <= 5

\* the bag has the types the schemas of CLAUDE_TOOLS declare: 'quantity' an
\* integer, 'scaleFactor' and 'scale' numbers, 'color' and 'action' strings
TypedBag(bag) ==
    /\ "quantity" \in DOMAIN bag => bag["quantity"].type = "int"
    /\ "scale" \in DOMAIN bag => bag["scale"].type = "float"
    /\ "scaleFactor" \in DOMAIN bag => bag["scaleFactor"].type = "float"
    /\ "color" \in DOMAIN bag => bag["color"].type = "str"
    /\ "action" \in DOMAIN bag => bag["action"].type = "str"

\* C12: every 200 response of process_command is a CanonicalAction: its
\* 'action' is one of spawn, delete, modify, scale, query, its 'quantity' an
\* integer >= 1 and its 'scale' in [0.1, 5.0], for every tool of CLAUDE_TOOLS
\* and every argument bag of the declared types.
C12_ResponseIsCanonical ==
    (/\ Answered
     /\ response.status = 200
     /\ ToolPath => (Invoked.name \in ToolNames /\ TypedBag(Invoked.input)))
    =>
        /\ "action" \in DOMAIN response.body
        /\ response.body["action"].type = "str"
        /\ response.body["action"].str \in CanonicalActions
        /\ "quantity" \in DOMAIN response.body => IsQuantity(response.body["quantity"])
        /\ "scale" \in DOMAIN response.body => IsScale(response.body["scale"])

(***************************************************************************)
(* The index after the load.                                               *)
(***************************************************************************)
\* C13: once load_inventory has finished, INVENTORY is never changed again,
\* whatever requests are handled, one after the other or at the same time;
\* every request that reaches the LLM has been given the excerpt of that
\* same index, whichever requests ran before or alongside it.
C13_InventoryImmutable ==
    /\ [][pc = "serve" => INVENTORY' = INVENTORY]_vars
    /\ [](\A t \in Threads :
            inflight[t].prompt # <<>> =>
                inflight[t].prompt[2] = InventoryContext(INVENTORY))

\* C13 witness: with a loaded index, one thread waits for the LLM while
\* another has answered 500
C13_Witness ==
    /\ INVENTORY # <<>>
    /\ \E t, u \in Threads :
          /\ inflight[t].stage = "calling"
          /\ inflight[u].stage = "done"
          /\ inflight[u].prompt # <<>>
          /\ inflight[u].response.status = 500


(***************************************************************************)
(* C14: the text reply of option B.                                        *)
(***************************************************************************)
\* option B asked the LLM and got a message with a text content
TextReplyB ==
    /\ Answered
    /\ llmCalls = 1
    /\ llmReply.raises = "none"
    /\ llmReply.stop_reason = "stop"

\* the text without its leading and trailing blanks
TrimmedOf(s) ==
    LET inked == {k \in 1..Len(s) : s[k] # " "} IN
    IF inked = {} THEN <<>>
    ELSE SubSeq(s, CHOOSE k \in inked : \A m \in inked : k <= m,
                   CHOOSE k \in inked : \A m \in inked : m <= k)

\* the text holds a {...} span that parses as a JSON object
Structured(text) == HasSpan(text) /\ JsonParses(Span(text))

\* the answer is the parsed object with the three defaults where absent
CarriesObjectB(obj) ==
    /\ response.status = 200
    /\ DOMAIN response.body = (DOMAIN obj) \cup {"action", "quantity", "scale"}
    /\ \A k \in DOMAIN obj : response.body[k] = obj[k]
    /\ "action" \notin DOMAIN obj => response.body["action"] = JStr(<<"query">>)
    /\ "quantity" \notin DOMAIN obj => response.body["quantity"] = JInt(1)
    /\ "scale" \notin DOMAIN obj => response.body["scale"] = JFloat(10)

\* the answer is a 200 query that carries the given text in 'response'
QueryFallbackB(text) ==
    /\ response.status = 200
    /\ {"action", "response"} \subseteq DOMAIN response.body
    /\ response.body["action"] = JStr(<<"query">>)
    /\ response.body["response"] = JStr(text)

\* C14 as stated: a text reply of option B that is not valid structured output
\* (no {...} span, or a span that fails to parse) is answered 200 with action
\* 'query' and the raw LLM text in 'response'; a parsed object is carried with
\* action 'query', quantity 1 and scale 1.0 only where absent.
C14_RawTextFallback ==
    TextReplyB =>
        IF Structured(llmReply.content)
        THEN CarriesObjectB(JsonLoads(Span(llmReply.content)))
        ELSE QueryFallbackB(llmReply.content)

\* C14 amended: as C14, but 'response' carries the LLM text with its leading
\* and trailing whitespace removed, never the text as the LLM sent it.
C14_TrimmedTextFallback ==
    TextReplyB =>
        LET text == TrimmedOf(llmReply.content) IN
        IF Structured(text)
        THEN CarriesObjectB(JsonLoads(Span(text)))
        ELSE QueryFallbackB(text)

\* C14 witness: a reply with a leading blank and a {...} span that fails to
\* parse has been answered 200 as a query with the trimmed text
C14_Witness ==
    /\ TextReplyB
    /\ llmReply.content = <<" ", "{", "Sure", "}">>
    /\ response.status = 200
    /\ response.body["response"] = JStr(<<"{", "Sure", "}">>)
    /\ "error" \in DOMAIN response.body

\* C14 second case reached: an object with a null scale and no action is
\* carried with the action and quantity defaults and the null kept
C14_ParsedWitness ==
    /\ TextReplyB
    /\ llmReply.content = <<"{", "\"scale\":null", "}">>
    /\ response.body = ("action" :> JStr(<<"query">>)) @@ ("quantity" :> JInt(1))
                        @@ ("scale" :> JNull)

(***************************************************************************)
(* C15: the fields of a stored record.                                     *)
(***************************************************************************)
\* the position of the first comma of a line that has one
FirstComma(line) ==
    CHOOSE c \in 1..Len(line) : line[c] = "," /\ \A k \in 1..(c - 1) : line[k] # ","

BeforeComma(line) == SubSeq(line, 1, FirstComma(line) - 1)

AfterComma(line) == SubSeq(line, FirstComma(line) + 1, Len(line))

\* the text without one pair of surrounding double quotes, if it has one
StripOnePair(s) ==
    IF Len(s) >= 2 /\ s[1] = "\"" /\ s[Len(s)] = "\""
    THEN SubSeq(s, 2, Len(s) - 1)
    ELSE s

\* the text from its first to its last atom that is not a double quote
Unquoted(s) ==
    LET inner == {k \in 1..Len(s) : s[k] # "\""} IN
    IF inner = {} THEN <<>>
    ELSE SubSeq(s, CHOOSE k \in inner : \A m \in inner : k <= m,
                   CHOOSE k \in inner : \A m \in inner : m <= k)

\* the record a step of the load appended to the index
LastAdded(old, inv) ==
    LET i == CHOOSE i \in 1..Len(inv) :
                 i > Len(old) \/ Len(inv[i].models) > Len(old[i].models)
    IN inv[i].models[Len(inv[i].models)]

\* C15 as stated: for a line with a comma the stored id is the trimmed text
\* before the first comma and the stored categories are the trimmed rest with
\* one pair of surrounding double quotes removed if present, every further
\* leading or trailing quote kept.
C15_OnePairRemoved ==
    [][(pos' = pos + 1 /\ HasComma(csv[pos + 1])) =>
          LastAdded(INVENTORY, INVENTORY') =
              [id |-> TrimmedOf(BeforeComma(csv[pos + 1])),
               categories |-> StripOnePair(TrimmedOf(AfterComma(csv[pos + 1])))]]_vars

\* What load_inventory does instead: the stored categories are the trimmed
\* rest with every leading and every trailing double quote removed, paired or
\* not; inner commas, inner quotes and the whitespace inside the quotes are
\* kept.
C15_AllOuterQuotesRemoved ==
    [][(pos' = pos + 1 /\ HasComma(csv[pos + 1])) =>
          LastAdded(INVENTORY, INVENTORY') =
              [id |-> TrimmedOf(BeforeComma(csv[pos + 1])),
               categories |-> Unquoted(TrimmedOf(AfterComma(csv[pos + 1])))]]_vars

\* C15 witness: the line a,""B"" has been read and is stored with categories B
C15_Witness ==
    /\ pos = 1
    /\ csv[1] = <<"a", ",", "\"", "\"", "B", "\"", "\"">>
    /\ INVENTORY = << [key |-> <<"b">>,
                       models |-> << [id |-> <<"a">>, categories |-> <<"B">>] >>] >>

====
